---------------------------- MODULE Spec2Model ----------------------------
(***************************************************************************)
(* Model of the adaptive arithmetic coder of campross (src/arith.rs) and   *)
(* of the bit I/O layer it is built on (src/bitfile.rs, src/error.rs).     *)
(*                                                                         *)
(* The coder works on u64 values up to 2^46.  TLC's integers are 32 bits   *)
(* wide, so a u64 is kept as a pair <<hi, lo>> of limbs, value             *)
(* hi * 2^16 + lo with 0 <= lo < 2^16.  All arithmetic of the coder is     *)
(* carried out on such pairs, with the program's own constants.            *)
(***************************************************************************)
EXTENDS Integers, Sequences, FiniteSets, TLC

(***************************************************************************)
(* Program constants (src/arith.rs:15-28).                                 *)
(***************************************************************************)
EOF == 256
SYM_CNT == 257
MAX_FREQ == 16383

(***************************************************************************)
(* u64 arithmetic on limb pairs.                                           *)
(***************************************************************************)
LimbBase == 256 * 256

\* the u64 with the given limbs, carries (or borrows) moved into hi
U64(hi, lo) == <<hi + (lo \div LimbBase), lo % LimbBase>>

\* a small number as a u64
Wide(n) == U64(0, n)

WAdd(a, b) == U64(a[1] + b[1], a[2] + b[2])

\* a - b; a negative hi limb is an underflow of the unsigned subtraction
WSub(a, b) == U64(a[1] - b[1], a[2] - b[2])

WLt(a, b) == \/ a[1] < b[1]
             \/ a[1] = b[1] /\ a[2] < b[2]

WLe(a, b) == ~WLt(b, a)

\* a * m for a multiplier m below 2^14 and a up to 2^32
WMul(a, m) == U64(a[1] * m, a[2] * m)

\* a / d (rounding down) for a divisor d below 2^14
WDiv(a, d) == <<a[1] \div d, (((a[1] % d) * LimbBase) + a[2]) \div d>>

\* the largest q in lo..hi with q * d <= n: n / d for a u64 divisor d, when
\* the quotient is known to lie in lo..hi
RECURSIVE QuotientIn(_, _, _, _)
QuotientIn(n, d, lo, hi) ==
    IF lo >= hi THEN lo
    ELSE LET mid == (lo + hi + 1) \div 2
         IN  IF WLe(WMul(d, mid), n)
             THEN QuotientIn(n, d, mid, hi)
             ELSE QuotientIn(n, d, lo, mid - 1)

\* a << 1
WShl1(a) == U64(2 * a[1], 2 * a[2])

\* a & MAX_CODE: the low 32 bits
WMask32(a) == <<a[1] % LimbBase, a[2]>>

ONE_HALF == <<32768, 0>>
ONE_FOURTH == <<16384, 0>>
THREE_FOURTHS == <<49152, 0>>
MAX_CODE == <<65535, 65535>>

(***************************************************************************)
(* The adaptive model: State of src/arith.rs.  freqs is the cumulative     *)
(* table, a function on 0..SYM_CNT.                                        *)
(***************************************************************************)
\* (mutant) a new State in which EOF starts with the count 2
StateNewEofTwice == [i \in 0..SYM_CNT |-> IF i = SYM_CNT THEN i + 1 ELSE i]

\* State::new
StateNew == [i \in 0..SYM_CNT |-> i]

\* State::get_count
GetCount(freqs) == freqs[SYM_CNT]

\* the running sums base + g[lo], base + g[lo] + g[lo + 1], ... up to hi, as
\* a sequence: step 3 of State::downscale on the entries lo..hi
RECURSIVE RunningSums(_, _, _, _)
RunningSums(g, lo, hi, base) ==
    IF lo = hi THEN <<base + g[lo]>>
    ELSE LET mid == (lo + hi) \div 2
             left == RunningSums(g, lo, mid, base)
         IN  left \o RunningSums(g, mid + 1, hi, left[Len(left)])

\* (mutant) downscale that halves rounding up
DownscaleRoundUp(freqs) ==
    LET indiv == [i \in 0..SYM_CNT |->
                    IF i = 0 THEN freqs[0]
                    ELSE IF i = SYM_CNT THEN 1
                    ELSE freqs[i] - freqs[i - 1]]
        halved == [i \in 0..SYM_CNT |->
                    IF i >= 1 /\ i < SYM_CNT THEN (indiv[i] + 1) \div 2
                    ELSE indiv[i]]
        cum == RunningSums(halved, 1, SYM_CNT, halved[0])
    IN  [i \in 0..SYM_CNT |-> IF i = 0 THEN halved[0] ELSE cum[i]]

\* (mutant) downscale that writes the EOF count as 0
DownscaleNoEof(freqs) ==
    LET indiv == [i \in 0..SYM_CNT |->
                    IF i = 0 THEN freqs[0]
                    ELSE IF i = SYM_CNT THEN 0
                    ELSE freqs[i] - freqs[i - 1]]
        halved == [i \in 0..SYM_CNT |->
                    IF i >= 1 /\ i < SYM_CNT /\ indiv[i] > 1
                    THEN indiv[i] \div 2
                    ELSE indiv[i]]
        cum == RunningSums(halved, 1, SYM_CNT, halved[0])
    IN  [i \in 0..SYM_CNT |-> IF i = 0 THEN halved[0] ELSE cum[i]]

\* (mutant) downscale that halves every count, also a count of 1
DownscaleToZero(freqs) ==
    LET indiv == [i \in 0..SYM_CNT |->
                    IF i = 0 THEN freqs[0]
                    ELSE IF i = SYM_CNT THEN 1
                    ELSE freqs[i] - freqs[i - 1]]
        halved == [i \in 0..SYM_CNT |->
                    IF i >= 1 /\ i < SYM_CNT THEN indiv[i] \div 2 ELSE indiv[i]]
        cum == RunningSums(halved, 1, SYM_CNT, halved[0])
    IN  [i \in 0..SYM_CNT |-> IF i = 0 THEN halved[0] ELSE cum[i]]

\* State::downscale: individual counts (the EOF count written as 1), each
\* count above 1 halved, cumulative sums again
Downscale(freqs) ==
    LET indiv == [i \in 0..SYM_CNT |->
                    IF i = 0 THEN freqs[0]
                    ELSE IF i = SYM_CNT THEN 1
                    ELSE freqs[i] - freqs[i - 1]]
        halved == [i \in 0..SYM_CNT |->
                    IF i >= 1 /\ i < SYM_CNT /\ indiv[i] > 1
                    THEN indiv[i] \div 2
                    ELSE indiv[i]]
        cum == RunningSums(halved, 1, SYM_CNT, halved[0])
    IN  [i \in 0..SYM_CNT |-> IF i = 0 THEN halved[0] ELSE cum[i]]

\* (mutant) an increment loop that starts at freqs[sym]
IncrementFromSym(freqs, sym) ==
    [i \in 0..SYM_CNT |-> IF i >= sym THEN freqs[i] + 1 ELSE freqs[i]]

\* the increment loop of State::update
Increment(freqs, sym) ==
    [i \in 0..SYM_CNT |-> IF i >= sym + 1 THEN freqs[i] + 1 ELSE freqs[i]]

\* (mutant) update that never rescales
UpdateUnbounded(freqs, sym) == Increment(freqs, sym)

\* State::update
Update(freqs, sym) ==
    LET inc == Increment(freqs, sym)
    IN  IF inc[SYM_CNT] >= MAX_FREQ THEN Downscale(inc) ELSE inc

\* the Prob read by State::get_prob_and_update, before the update
GetProb(freqs, sym) ==
    [low |-> freqs[sym], high |-> freqs[sym + 1], total |-> freqs[SYM_CNT]]

\* State::get_prob_and_update: the Prob and the updated table
GetProbAndUpdate(freqs, sym) ==
    [prob |-> GetProb(freqs, sym), freqs |-> Update(freqs, sym)]

\* (mutant) a scan that stops at the first i with scaled_value <= freqs[i + 1]
ScanSymbolInclusive(freqs, scaled_value, lo, hi) ==
    LET hits == {i \in lo..hi : scaled_value <= freqs[i + 1]}
    IN  IF hits = {} THEN SYM_CNT
        ELSE CHOOSE i \in hits : \A j \in hits : i <= j

\* State::get_symbol_and_update's scan over the symbols lo..hi: the first i
\* with scaled_value < freqs[i + 1]; SYM_CNT when there is none
RECURSIVE ScanSymbol(_, _, _, _)
ScanSymbol(freqs, scaled_value, lo, hi) ==
    IF lo = hi
    THEN IF scaled_value < freqs[lo + 1] THEN lo ELSE SYM_CNT
    ELSE LET mid == (lo + hi) \div 2
             first == ScanSymbol(freqs, scaled_value, lo, mid)
         IN  IF first # SYM_CNT THEN first
             ELSE ScanSymbol(freqs, scaled_value, mid + 1, hi)

\* State::get_symbol_and_update: the symbol, its Prob and the updated table
GetSymbolAndUpdate(freqs, scaled_value) ==
    LET sym == ScanSymbol(freqs, scaled_value, 0, SYM_CNT - 1)
    IN  IF sym = SYM_CNT  \* unreachable!()
        THEN [sym |-> SYM_CNT, prob |-> GetProb(freqs, 0), freqs |-> freqs]
        ELSE [sym |-> sym, prob |-> GetProb(freqs, sym),
              freqs |-> Update(freqs, sym)]

\* (mutant) one call of get_prob_and_update(s) whatever the count
UpdateOnce(freqs, s, c) ==
    IF c = 0 THEN freqs ELSE GetProbAndUpdate(freqs, s).freqs

\* the inner loop of State::preload: c calls of get_prob_and_update(s), the
\* first c / 2 of them and then the rest.  (The test of `half` makes TLC
\* compute the first part before it starts on the second.)
RECURSIVE UpdateTimes(_, _, _)
UpdateTimes(freqs, s, c) ==
    IF c = 0 THEN freqs
    ELSE IF c = 1 THEN GetProbAndUpdate(freqs, s).freqs
    ELSE LET half == UpdateTimes(freqs, s, c \div 2)
         IN  IF half \in [0..SYM_CNT -> Nat]
             THEN UpdateTimes(half, s, c - (c \div 2))
             ELSE half

\* a preload that stops after the first pair of the list
PreloadFirstPair(freqs, cnts) ==
    IF cnts = <<>> THEN freqs
    ELSE UpdateTimes(freqs, Head(cnts)[1], Head(cnts)[2])

\* State::preload: the pairs of counts in list order
RECURSIVE Preload(_, _)
Preload(freqs, cnts) ==
    IF cnts = <<>> THEN freqs
    ELSE Preload(UpdateTimes(freqs, Head(cnts)[1], Head(cnts)[2]), Tail(cnts))

(***************************************************************************)
(* Errors (src/error.rs).  An io::Error is a record with its ErrorKind;    *)
(* Error is the enum with the variants UnexpectedEof and Io(io::Error).    *)
(***************************************************************************)
IoUnexpectedEof == [kind |-> "UnexpectedEof"]
IoOther == [kind |-> "Other"]

ErrorUnexpectedEof == [variant |-> "UnexpectedEof", io |-> [kind |-> "-"]]

\* impl From<io::Error> for Error
FromIoError(e) == [variant |-> "Io", io |-> e]

\* the outcome of a call: Ok, Err(error), a panic, or none yet
ResOk == [tag |-> "Ok", error |-> [variant |-> "-", io |-> [kind |-> "-"]]]
ResErr(e) == [tag |-> "Err", error |-> e]
ResPanic == [tag |-> "Panic", error |-> [variant |-> "-", io |-> [kind |-> "-"]]]
ResNone == [tag |-> "None", error |-> [variant |-> "-", io |-> [kind |-> "-"]]]

(***************************************************************************)
(* The byte sink and source the caller supplies (std::io::Write / Read).   *)
(* A sink holds the bytes written so far; its call number failAt fails     *)
(* (0: never).  A source hands out its bytes one read at a time; its call  *)
(* number failAt fails (0: never).                                         *)
(***************************************************************************)
NewSink(failAt) == [bytes |-> <<>>, ops |-> 0, failAt |-> failAt]

\* Write::write of one byte: [sink, ok]
SinkWrite(sink, byte) ==
    IF sink.failAt = sink.ops + 1
    THEN [sink |-> [sink EXCEPT !.ops = @ + 1], ok |-> FALSE]
    ELSE [sink |-> [sink EXCEPT !.ops = @ + 1, !.bytes = Append(@, byte)],
          ok |-> TRUE]

\* Write::flush
SinkFlush(sink) ==
    [sink |-> [sink EXCEPT !.ops = @ + 1], ok |-> sink.failAt # sink.ops + 1]

NewSource(bytes, failAt) ==
    [bytes |-> bytes, pos |-> 0, ops |-> 0, failAt |-> failAt]

\* Read::read into a buffer of one byte: [src, ok, nread, byte]
SourceRead(src) ==
    IF src.failAt = src.ops + 1
    THEN [src |-> [src EXCEPT !.ops = @ + 1], ok |-> FALSE, nread |-> 0,
          byte |-> 0]
    ELSE IF src.pos >= Len(src.bytes)
    THEN [src |-> [src EXCEPT !.ops = @ + 1], ok |-> TRUE, nread |-> 0,
          byte |-> 0]
    ELSE [src |-> [src EXCEPT !.ops = @ + 1, !.pos = @ + 1], ok |-> TRUE,
          nread |-> 1, byte |-> src.bytes[src.pos + 1]]

(***************************************************************************)
(* BitWriter (src/bitfile.rs:84-153).                                      *)
(***************************************************************************)
\* bit k (0 = least significant) of v
BitAt(v, k) == (v \div (2 ^ k)) % 2

\* buf | mask for a mask of one bit
OrMask(buf, mask) == IF (buf \div mask) % 2 = 1 THEN buf ELSE buf + mask

\* BitWriter::new
BitWriterNew(inner) == [inner |-> inner, buf |-> 0, mask |-> 128, ok |-> TRUE]

\* BitWriter::write_bit; ok = FALSE when the sink's write failed
WriteBit(w, bit) ==
    LET buf == IF bit = 1 THEN OrMask(w.buf, w.mask) ELSE w.buf
        mask == w.mask \div 2
    IN  IF mask = 0
        THEN LET wr == SinkWrite(w.inner, buf)
             IN  IF wr.ok
                 THEN [inner |-> wr.sink, buf |-> 0, mask |-> 128, ok |-> TRUE]
                 ELSE [inner |-> wr.sink, buf |-> buf, mask |-> 0, ok |-> FALSE]
        ELSE [w EXCEPT !.buf = buf, !.mask = mask]

\* (mutant) write_bits sending the least significant bit first
WriteBitsLsbFirst(w, value, count) ==
    LET RECURSIVE Go(_, _)
        Go(ww, k) == IF k = count \/ ~ww.ok THEN ww
                     ELSE Go(WriteBit(ww, BitAt(value, k)), k + 1)
    IN  Go(w, 0)

\* BitWriter::write_bits: the count least significant bits of value, the
\* most significant one first, stopping at the first failed write
RECURSIVE WriteBits(_, _, _)
WriteBits(w, value, count) ==
    IF count = 0 \/ ~w.ok THEN w
    ELSE WriteBits(WriteBit(w, BitAt(value, count - 1)), value, count - 1)

\* BitWriter::do_flush
DoFlush(w) ==
    IF w.mask # 128
    THEN LET wr == SinkWrite(w.inner, w.buf)
         IN  [w EXCEPT !.inner = wr.sink, !.ok = wr.ok]
    ELSE w

\* Write::flush of BitWriter: do_flush, then the sink's flush
Flush(w) ==
    LET f == DoFlush(w)
    IN  IF ~f.ok THEN f
        ELSE LET fl == SinkFlush(f.inner)
             IN  [f EXCEPT !.inner = fl.sink, !.ok = fl.ok]

\* BitWriter::to_inner
ToInner(w) == w.inner

(***************************************************************************)
(* BitReader (src/bitfile.rs:7-72).                                        *)
(***************************************************************************)
\* BitReader::new_with_extra
BitReaderNewWithExtra(inner, extra) ==
    [inner |-> inner, buf |-> 0, mask |-> 128, extra_bits |-> extra]

\* BitReader::new
BitReaderNew(inner) == BitReaderNewWithExtra(inner, 0)

\* the tail of BitReader::read_bit: the bit under the mask, the mask moved
TakeBit(r) ==
    [r |-> [r EXCEPT !.mask = IF r.mask \div 2 = 0 THEN 128 ELSE r.mask \div 2],
     bit |-> (r.buf \div r.mask) % 2, err |-> "none"]

\* (mutant) read_bit that hands out padding without using up the budget
ReadBitKeepBudget(r) ==
    IF r.mask = 128
    THEN LET rd == SourceRead(r.inner)
             r1 == [r EXCEPT !.inner = rd.src]
         IN  IF ~rd.ok THEN [r |-> r1, bit |-> 0, err |-> "io"]
             ELSE IF rd.nread = 0
             THEN IF r.extra_bits > 0
                  THEN [r |-> r1, bit |-> 0, err |-> "none"]
                  ELSE [r |-> r1, bit |-> 0, err |-> "eof"]
             ELSE TakeBit([r1 EXCEPT !.buf = rd.byte])
    ELSE TakeBit(r)

\* BitReader::read_bit: [r, bit, err], err one of "none", "eof" (the
\* io::Error of kind UnexpectedEof the reader makes) and "io" (the source's)
ReadBit(r) ==
    IF r.mask = 128
    THEN LET rd == SourceRead(r.inner)
             r1 == [r EXCEPT !.inner = rd.src]
         IN  IF ~rd.ok THEN [r |-> r1, bit |-> 0, err |-> "io"]
             ELSE IF rd.nread = 0
             THEN IF r.extra_bits > 0
                  THEN [r |-> [r1 EXCEPT !.extra_bits = @ - 1], bit |-> 0,
                        err |-> "none"]
                  ELSE [r |-> r1, bit |-> 0, err |-> "eof"]
             ELSE TakeBit([r1 EXCEPT !.buf = rd.byte])
    ELSE TakeBit(r)

\* one iteration of the loop of BitReader::read_bits on [r, value, err]:
\* result <<= 1, and result |= 1 when the bit read is set
ReadStep(st) ==
    LET b == ReadBit(st.r)
    IN  IF b.err # "none" THEN [r |-> b.r, value |-> st.value, err |-> b.err]
        ELSE [r |-> b.r, value |-> WAdd(WShl1(st.value), Wide(b.bit)),
              err |-> "none"]

\* the loop of BitReader::read_bits, left at the first failed read_bit
RECURSIVE ReadBitsFrom(_, _)
ReadBitsFrom(st, count) ==
    IF count = 0 \/ st.err # "none" THEN st
    ELSE ReadBitsFrom(ReadStep(st), count - 1)

\* BitReader::read_bits: [r, value, err], value a u64
ReadBits(r, count) ==
    ReadBitsFrom([r |-> r, value |-> Wide(0), err |-> "none"], count)

\* the io::Error a failed read_bit returns
ReadError(err) == IF err = "eof" THEN IoUnexpectedEof ELSE IoOther

(***************************************************************************)
(* Bounds of the model and the inputs it is run on.                        *)
(***************************************************************************)
\* the longest input of compress
MaxLen == 2

\* the byte values the inputs are made of
Bytes == {0, 128, 255}

RECURSIVE SeqsUpTo(_, _)
SeqsUpTo(S, n) ==
    IF n = 0 THEN {<<>>}
    ELSE LET shorter == SeqsUpTo(S, n - 1)
         IN  shorter \cup {Append(q, x) : q \in {t \in shorter : Len(t) = n - 1},
                                          x \in S}

Inputs == SeqsUpTo(Bytes, MaxLen)

\* a preload list that leaves the total two updates short of MAX_FREQ, so
\* that the second update after it rescales the table
NearFullList == <<<<128, MAX_FREQ - 264>>, <<0, 3>>, <<255, 2>>>>

\* the preload lists the coder is seeded with (<<>>: no preload)
PreloadLists == {<<>>, <<<<128, 1>>, <<65, 3>>>>, NearFullList}

\* Encoder::preload and Decoder::preload on a new State, for each of the lists
Preloaded == [cnts \in PreloadLists |-> Preload(StateNew, cnts)]

\* the I/O failures of a run: none, or one failing call of one of the four
\* byte streams (the encoder's source and sink, the decoder's source and sink)
NoFault == [where |-> "none", at |-> 0]

Faults ==
    {NoFault}
      \cup {[where |-> "esrc", at |-> k] : k \in 1..(MaxLen + 1)}
      \cup {[where |-> "esink", at |-> k] : k \in 1..(MaxLen + 3)}
      \cup {[where |-> "dsrc", at |-> k] : k \in 1..(MaxLen + 3)}
      \cup {[where |-> "dsink", at |-> k] : k \in 1..MaxLen}

FailAt(flt, where) == IF flt.where = where THEN flt.at ELSE 0

(***************************************************************************)
(* State of a run: one Encoder compressing `input`, then one Decoder       *)
(* decompressing the bytes the encoder's sink received (or a prefix of     *)
(* them).                                                                  *)
(***************************************************************************)
VARIABLES
    input,      \* the bytes given to compress
    counts,     \* the preload list given to the Encoder and the Decoder
    fault,      \* the I/O failure of the run
    enc,        \* the Encoder and the locals of Encoder::compress
    dec,        \* the Decoder and the locals of Decoder::decompress
    trace,      \* (freqs, low, high) of the encoder at the start of each symbol
    mdl,        \* a State driven directly (specification SpecState)
    bio         \* a BitWriter and a BitReader driven directly (SpecBits)

vars == <<input, counts, fault, enc, dec, trace, mdl, bio>>

\* what the steps of compress leave alone, and the steps of decompress
encFrame == <<input, counts, fault, dec, mdl, bio>>
decFrame == <<input, counts, fault, enc, trace, mdl, bio>>

Snapshot(freqs, low, high) == [freqs |-> freqs, low |-> low, high |-> high]

\* Encoder::new, Encoder::preload and the locals compress starts with
EncoderNew(bytes, cnts, flt) ==
    [state |-> Preloaded[cnts],
     low |-> Wide(0), high |-> MAX_CODE, pending_bits |-> 0, c |-> 0,
     input |-> NewSource(bytes, FailAt(flt, "esrc")),
     outp |-> BitWriterNew(NewSink(FailAt(flt, "esink"))),
     pc |-> "read", res |-> ResNone]

\* the value of dec.sym before get_symbol_and_update has returned a symbol
NoSymbol == 0 - 1

\* the Decoder before decompress is called; sym is the symbol the last call of
\* get_symbol_and_update returned
DecoderIdle ==
    [state |-> StateNew, low |-> Wide(0), high |-> MAX_CODE, value |-> Wide(0),
     inp |-> BitReaderNewWithExtra(NewSource(<<>>, 0), 0),
     output |-> NewSink(0), full |-> FALSE, exhausted |-> FALSE,
     sym |-> NoSymbol, pc |-> "idle", res |-> ResNone]

\* (mutant) a Decoder that is not preloaded
DecoderNewFresh(bytes, full, cnts, flt) ==
    [state |-> StateNew,
     low |-> Wide(0), high |-> MAX_CODE, value |-> Wide(0),
     inp |-> BitReaderNewWithExtra(NewSource(bytes, FailAt(flt, "dsrc")), 64),
     output |-> NewSink(FailAt(flt, "dsink")),
     full |-> full, exhausted |-> FALSE, sym |-> NoSymbol, pc |-> "prime",
     res |-> ResNone]

\* Decoder::new, Decoder::preload and the locals decompress starts with
DecoderNew(bytes, full, cnts, flt) ==
    [state |-> Preloaded[cnts],
     low |-> Wide(0), high |-> MAX_CODE, value |-> Wide(0),
     inp |-> BitReaderNewWithExtra(NewSource(bytes, FailAt(flt, "dsrc")), 64),
     output |-> NewSink(FailAt(flt, "dsink")),
     full |-> full, exhausted |-> FALSE, sym |-> NoSymbol, pc |-> "prime",
     res |-> ResNone]

Init ==
    /\ Preloaded \in [PreloadLists -> [0..SYM_CNT -> Nat]]
    /\ input \in Inputs
    /\ counts \in PreloadLists
    /\ fault \in Faults
    /\ counts = <<>> \/ fault = NoFault
    /\ enc = EncoderNew(input, counts, fault)
    /\ dec = DecoderIdle
    /\ trace = <<>>
    /\ mdl = <<>>
    /\ bio = <<>>

(***************************************************************************)
(* Encoder::compress (src/arith.rs:176-243).                               *)
(***************************************************************************)
\* the while loop of Encoder::output_bit_plus_pending
RECURSIVE PendingLoop(_, _, _)
PendingLoop(w, bit, pending) ==
    IF pending = 0 THEN [w |-> w, pending_bits |-> 0]
    ELSE LET w1 == WriteBits(w, 1 - bit, 1)
         IN  IF ~w1.ok THEN [w |-> w1, pending_bits |-> pending]
             ELSE PendingLoop(w1, bit, pending - 1)

\* (mutant) the bit written and the pending bits dropped
OutputBitDropPending(w, bit, pending) ==
    [w |-> WriteBits(w, bit, 1), pending_bits |-> 0]

\* Encoder::output_bit_plus_pending: [w, pending_bits]; w.ok = FALSE on Err
OutputBitPlusPending(w, bit, pending) ==
    LET w1 == WriteBits(w, bit, 1)
    IN  IF ~w1.ok THEN [w |-> w1, pending_bits |-> pending]
        ELSE PendingLoop(w1, bit, pending)

\* high - low + 1
Range(low, high) == WAdd(WSub(high, low), Wide(1))

\* low + (range * p.high / p.total) - 1
NarrowHigh(low, range, p) ==
    WSub(WAdd(low, WDiv(WMul(range, p.high), p.total)), Wide(1))

\* low + (range * p.low / p.total)
NarrowLow(low, range, p) == WAdd(low, WDiv(WMul(range, p.low), p.total))

\* input.read: an error returns Err(Io); a short read becomes EOF
EncRead ==
    /\ enc.pc = "read"
    /\ LET rd == SourceRead(enc.input)
       IN  IF ~rd.ok
           THEN /\ enc' = [enc EXCEPT !.input = rd.src, !.pc = "done",
                                      !.res = ResErr(FromIoError(IoOther))]
                /\ UNCHANGED trace
           ELSE /\ enc' = [enc EXCEPT !.input = rd.src, !.pc = "encode",
                                      !.c = IF rd.nread = 0 THEN EOF ELSE rd.byte]
                /\ trace' = Append(trace, Snapshot(enc.state, enc.low, enc.high))
    /\ UNCHANGED encFrame

\* get_prob_and_update and the narrowing of [low, high]
EncSymbol ==
    /\ enc.pc = "encode"
    /\ LET pu == GetProbAndUpdate(enc.state, enc.c)
           range == Range(enc.low, enc.high)
       IN  enc' = [enc EXCEPT !.state = pu.freqs,
                              !.high = NarrowHigh(enc.low, range, pu.prob),
                              !.low = NarrowLow(enc.low, range, pu.prob),
                              !.pc = "renorm"]
    /\ UNCHANGED <<encFrame, trace>>

\* (mutant) the shift of low without `low &= MAX_CODE`
EncShiftLowNoMask(low) == WShl1(low)

\* (mutant) the shift of high without `high &= MAX_CODE`
EncShiftHighNoMask(high) == WAdd(WShl1(high), Wide(1))

\* the shift that ends an iteration of the encoder's inner loop
EncShiftHigh(high) == WMask32(WAdd(WShl1(high), Wide(1)))
EncShiftLow(low) == WMask32(WShl1(low))

\* (mutant) an inner loop whose underflow case counts a pending bit and
\* leaves low and high as they are
EncRenormNoShift ==
    /\ enc.pc = "renorm"
    /\ IF WLt(enc.high, ONE_HALF) \/ WLe(ONE_HALF, enc.low)
       THEN LET bit == IF WLt(enc.high, ONE_HALF) THEN 0 ELSE 1
                o == OutputBitPlusPending(enc.outp, bit, enc.pending_bits)
            IN  IF ~o.w.ok
                THEN enc' = [enc EXCEPT !.outp = o.w,
                                        !.pending_bits = o.pending_bits,
                                        !.pc = "done",
                                        !.res = ResErr(FromIoError(IoOther))]
                ELSE enc' = [enc EXCEPT !.outp = o.w,
                                        !.pending_bits = o.pending_bits,
                                        !.high = EncShiftHigh(enc.high),
                                        !.low = EncShiftLow(enc.low)]
       ELSE IF WLe(ONE_FOURTH, enc.low) /\ WLt(enc.high, THREE_FOURTHS)
       THEN enc' = [enc EXCEPT !.pending_bits = @ + 1]
       ELSE enc' = [enc EXCEPT !.pc = IF enc.c = EOF THEN "final" ELSE "read"]
    /\ UNCHANGED <<encFrame, trace>>

\* (mutant) the encoder's inner loop without its underflow case
EncRenormNoUnderflow ==
    /\ enc.pc = "renorm"
    /\ IF WLt(enc.high, ONE_HALF) \/ WLe(ONE_HALF, enc.low)
       THEN LET bit == IF WLt(enc.high, ONE_HALF) THEN 0 ELSE 1
                o == OutputBitPlusPending(enc.outp, bit, enc.pending_bits)
            IN  IF ~o.w.ok
                THEN enc' = [enc EXCEPT !.outp = o.w,
                                        !.pending_bits = o.pending_bits,
                                        !.pc = "done",
                                        !.res = ResErr(FromIoError(IoOther))]
                ELSE enc' = [enc EXCEPT !.outp = o.w,
                                        !.pending_bits = o.pending_bits,
                                        !.high = EncShiftHigh(enc.high),
                                        !.low = EncShiftLow(enc.low)]
       ELSE enc' = [enc EXCEPT !.pc = IF enc.c = EOF THEN "final" ELSE "read"]
    /\ UNCHANGED <<encFrame, trace>>

\* one iteration of the inner loop of compress
EncRenorm ==
    /\ enc.pc = "renorm"
    /\ IF WLt(enc.high, ONE_HALF) \/ WLe(ONE_HALF, enc.low)
       THEN LET bit == IF WLt(enc.high, ONE_HALF) THEN 0 ELSE 1
                o == OutputBitPlusPending(enc.outp, bit, enc.pending_bits)
            IN  IF ~o.w.ok
                THEN enc' = [enc EXCEPT !.outp = o.w,
                                        !.pending_bits = o.pending_bits,
                                        !.pc = "done",
                                        !.res = ResErr(FromIoError(IoOther))]
                ELSE enc' = [enc EXCEPT !.outp = o.w,
                                        !.pending_bits = o.pending_bits,
                                        !.high = EncShiftHigh(enc.high),
                                        !.low = EncShiftLow(enc.low)]
       ELSE IF WLe(ONE_FOURTH, enc.low) /\ WLt(enc.high, THREE_FOURTHS)
       THEN enc' = [enc EXCEPT !.pending_bits = @ + 1,
                               !.high = EncShiftHigh(WSub(enc.high, ONE_FOURTH)),
                               !.low = EncShiftLow(WSub(enc.low, ONE_FOURTH))]
       ELSE enc' = [enc EXCEPT !.pc = IF enc.c = EOF THEN "final" ELSE "read"]
    /\ UNCHANGED <<encFrame, trace>>

\* (mutant) the final bit written without the extra pending bit
EncFinalNoExtra ==
    /\ enc.pc = "final"
    /\ LET bit == IF WLt(enc.low, ONE_FOURTH) THEN 0 ELSE 1
           o == OutputBitPlusPending(enc.outp, bit, enc.pending_bits)
       IN  IF ~o.w.ok
           THEN enc' = [enc EXCEPT !.outp = o.w, !.pending_bits = o.pending_bits,
                                   !.pc = "done",
                                   !.res = ResErr(FromIoError(IoOther))]
           ELSE enc' = [enc EXCEPT !.outp = o.w, !.pending_bits = o.pending_bits,
                                   !.pc = "flush"]
    /\ UNCHANGED <<encFrame, trace>>

\* the two most significant bits of low, written after EOF
EncFinal ==
    /\ enc.pc = "final"
    /\ LET bit == IF WLt(enc.low, ONE_FOURTH) THEN 0 ELSE 1
           o == OutputBitPlusPending(enc.outp, bit, enc.pending_bits + 1)
       IN  IF ~o.w.ok
           THEN enc' = [enc EXCEPT !.outp = o.w, !.pending_bits = o.pending_bits,
                                   !.pc = "done",
                                   !.res = ResErr(FromIoError(IoOther))]
           ELSE enc' = [enc EXCEPT !.outp = o.w, !.pending_bits = o.pending_bits,
                                   !.pc = "flush"]
    /\ UNCHANGED <<encFrame, trace>>

\* (mutant) the bit writer flushed twice before compress returns
EncFlushTwice ==
    /\ enc.pc = "flush"
    /\ LET f == Flush(Flush(enc.outp))
       IN  enc' = [enc EXCEPT !.outp = f, !.pc = "done",
                              !.res = IF f.ok THEN ResOk ELSE ResPanic]
    /\ UNCHANGED <<encFrame, trace>>

\* outp.flush().unwrap() and Ok(outp.to_inner())
EncFlush ==
    /\ enc.pc = "flush"
    /\ LET f == Flush(enc.outp)
       IN  enc' = [enc EXCEPT !.outp = f, !.pc = "done",
                              !.res = IF f.ok THEN ResOk ELSE ResPanic]
    /\ UNCHANGED <<encFrame, trace>>

\* the bytes compress returned
Compressed == ToInner(enc.outp).bytes

(***************************************************************************)
(* Decoder::decompress (src/arith.rs:269-323).                             *)
(***************************************************************************)
\* decompress is called on the first n bytes the encoder's sink received
DecStart ==
    /\ dec.pc = "idle"
    /\ enc.pc = "done"
    /\ enc.res = ResOk
    /\ \E n \in 0..Len(Compressed) :
          dec' = DecoderNew(SubSeq(Compressed, 1, n), n = Len(Compressed),
                            counts, fault)
    /\ UNCHANGED decFrame

\* (mutant) a decoder that primes value with 44 bits
DecPrimeWide ==
    /\ dec.pc = "prime"
    /\ LET rd == ReadBits(dec.inp, 44)
       IN  IF rd.err # "none"
           THEN dec' = [dec EXCEPT !.inp = rd.r, !.pc = "done",
                                   !.exhausted = (rd.err = "eof"),
                                   !.res = ResErr(FromIoError(ReadError(rd.err)))]
           ELSE dec' = [dec EXCEPT !.inp = rd.r, !.value = rd.value,
                                   !.pc = "decode"]
    /\ UNCHANGED decFrame

\* let mut value = try!(inp.read_bits(32))
DecPrime ==
    /\ dec.pc = "prime"
    /\ LET rd == ReadBits(dec.inp, 32)
       IN  IF rd.err # "none"
           THEN dec' = [dec EXCEPT !.inp = rd.r, !.pc = "done",
                                   !.exhausted = (rd.err = "eof"),
                                   !.res = ResErr(FromIoError(ReadError(rd.err)))]
           ELSE dec' = [dec EXCEPT !.inp = rd.r, !.value = rd.value,
                                   !.pc = "decode"]
    /\ UNCHANGED decFrame

\* ((value - low + 1) * get_count() - 1) / range
ScaledCount(value, low, range, total) ==
    QuotientIn(WSub(WMul(WAdd(WSub(value, low), Wide(1)), total), Wide(1)),
               range, 0, total)

\* the head of the decoder's loop: the next symbol, its byte written, the
\* interval narrowed
DecSymbol ==
    /\ dec.pc = "decode"
    /\ LET range == Range(dec.low, dec.high)
           count == ScaledCount(dec.value, dec.low, range, GetCount(dec.state))
           su == GetSymbolAndUpdate(dec.state, count)
           wr == SinkWrite(dec.output, su.sym)
       IN  IF su.sym = SYM_CNT
           THEN dec' = [dec EXCEPT !.sym = su.sym, !.pc = "done",
                                   !.res = ResPanic]
           ELSE IF su.sym = EOF
           THEN dec' = [dec EXCEPT !.state = su.freqs, !.sym = su.sym,
                                   !.pc = "done", !.res = ResOk]
           ELSE IF ~wr.ok
           THEN dec' = [dec EXCEPT !.state = su.freqs, !.output = wr.sink,
                                   !.sym = su.sym, !.pc = "done",
                                   !.res = ResErr(FromIoError(IoOther))]
           ELSE dec' = [dec EXCEPT !.state = su.freqs, !.output = wr.sink,
                                   !.sym = su.sym,
                                   !.high = NarrowHigh(dec.low, range, su.prob),
                                   !.low = NarrowLow(dec.low, range, su.prob),
                                   !.pc = "renorm"]
    /\ UNCHANGED decFrame

\* (mutant) a decoder that shifts without subtracting ONE_HALF first
DecOffsetNoHalf(low, high) ==
    IF WLt(high, ONE_HALF) THEN <<Wide(0)>>
    ELSE IF WLe(ONE_HALF, low) THEN <<Wide(0)>>
    ELSE IF WLe(ONE_FOURTH, low) /\ WLt(high, THREE_FOURTHS) THEN <<ONE_FOURTH>>
    ELSE <<>>

\* (mutant) the decoder's inner loop without its underflow case
DecOffsetNoUnderflow(low, high) ==
    IF WLt(high, ONE_HALF) THEN <<Wide(0)>>
    ELSE IF WLe(ONE_HALF, low) THEN <<ONE_HALF>>
    ELSE <<>>

\* what one iteration of the decoder's inner loop subtracts from low, high
\* and value: nothing, ONE_HALF or ONE_FOURTH; <<>> when the loop breaks
DecOffset(low, high) ==
    IF WLt(high, ONE_HALF) THEN <<Wide(0)>>
    ELSE IF WLe(ONE_HALF, low) THEN <<ONE_HALF>>
    ELSE IF WLe(ONE_FOURTH, low) /\ WLt(high, THREE_FOURTHS) THEN <<ONE_FOURTH>>
    ELSE <<>>

\* (mutant) an inner loop that takes a failed read for the end of the stream
\* and returns the bytes decoded so far
DecRenormPartial ==
    /\ dec.pc = "renorm"
    /\ LET off == DecOffset(dec.low, dec.high)
           rd == ReadBits(dec.inp, 1)
       IN  IF off = <<>>
           THEN dec' = [dec EXCEPT !.pc = "decode"]
           ELSE IF rd.err # "none"
           THEN dec' = [dec EXCEPT !.inp = rd.r, !.pc = "done",
                                   !.exhausted = (rd.err = "eof"),
                                   !.res = ResOk]
           ELSE dec' = [dec EXCEPT
                          !.inp = rd.r,
                          !.low = WShl1(WSub(dec.low, off[1])),
                          !.high = WAdd(WShl1(WSub(dec.high, off[1])), Wide(1)),
                          !.value = WAdd(WShl1(WSub(dec.value, off[1])), rd.value)]
    /\ UNCHANGED decFrame

\* (mutant) an inner loop that shifts value without subtracting from it
DecRenormValueNoOffset ==
    /\ dec.pc = "renorm"
    /\ LET off == DecOffset(dec.low, dec.high)
           rd == ReadBits(dec.inp, 1)
       IN  IF off = <<>>
           THEN dec' = [dec EXCEPT !.pc = "decode"]
           ELSE IF rd.err # "none"
           THEN dec' = [dec EXCEPT !.inp = rd.r, !.pc = "done",
                                   !.exhausted = (rd.err = "eof"),
                                   !.res = ResErr(FromIoError(ReadError(rd.err)))]
           ELSE dec' = [dec EXCEPT
                          !.inp = rd.r,
                          !.low = WShl1(WSub(dec.low, off[1])),
                          !.high = WAdd(WShl1(WSub(dec.high, off[1])), Wide(1)),
                          !.value = WAdd(WShl1(dec.value), rd.value)]
    /\ UNCHANGED decFrame

\* one iteration of the inner loop of decompress
DecRenorm ==
    /\ dec.pc = "renorm"
    /\ LET off == DecOffset(dec.low, dec.high)
           rd == ReadBits(dec.inp, 1)
       IN  IF off = <<>>
           THEN dec' = [dec EXCEPT !.pc = "decode"]
           ELSE IF rd.err # "none"
           THEN dec' = [dec EXCEPT !.inp = rd.r, !.pc = "done",
                                   !.exhausted = (rd.err = "eof"),
                                   !.res = ResErr(FromIoError(ReadError(rd.err)))]
           ELSE dec' = [dec EXCEPT
                          !.inp = rd.r,
                          !.low = WShl1(WSub(dec.low, off[1])),
                          !.high = WAdd(WShl1(WSub(dec.high, off[1])), Wide(1)),
                          !.value = WAdd(WShl1(WSub(dec.value, off[1])), rd.value)]
    /\ UNCHANGED decFrame

\* the bytes decompress wrote to its output
Decompressed == dec.output.bytes

Next ==
    \/ EncRead
    \/ EncSymbol
    \/ EncRenorm
    \/ EncFinal
    \/ EncFlush
    \/ DecStart
    \/ DecPrime
    \/ DecSymbol
    \/ DecRenorm

Spec == Init /\ [][Next]_vars

(***************************************************************************)
(* Specification SpecAny: as Spec, and decompress may also be called on    *)
(* `input` itself, a byte sequence no encoder wrote; compress is then not  *)
(* run.                                                                    *)
(***************************************************************************)
\* decompress(input), in a run whose failure (if any) is one of the decoder's
DecStartRaw ==
    /\ dec.pc = "idle"
    /\ enc.pc = "read" /\ trace = <<>>
    /\ fault.where \notin {"esrc", "esink"}
    /\ enc' = [enc EXCEPT !.pc = "unused"]
    /\ dec' = DecoderNew(input, FALSE, counts, fault)
    /\ UNCHANGED <<input, counts, fault, trace, mdl, bio>>

NextAny ==
    \/ Next
    \/ DecStartRaw

SpecAny == Init /\ [][NextAny]_vars

(***************************************************************************)
(* Specification SpecState: one State driven directly.  Starting from a    *)
(* table `base` (a new State, or a State preloaded up to two updates short *)
(* of MAX_FREQ), the pairs of `list` are replayed one update at a time on  *)
(* `freqs`; State::preload(list) is called on base once, its result kept   *)
(* in `pre`; and downscale may be called directly, as the tests do.        *)
(***************************************************************************)
\* the longest list replayed, and the largest count of a pair
MaxPairs == 2
MaxCount == 2

\* the symbols updated: the first and the last byte, and EOF
ModelSyms == {0, 255, EOF}

ModelLists == SeqsUpTo(ModelSyms \X (0..MaxCount), MaxPairs)

\* the tables the replay starts from
BaseTables == {StateNew, Preloaded[NearFullList]}

\* freqs is non-decreasing
Monotone(freqs) == \A i \in 0..(SYM_CNT - 1) : freqs[i] <= freqs[i + 1]

\* the individual count of symbol s
Count(freqs, s) == freqs[s + 1] - freqs[s]

\* the first position at or after pair i of list whose count is not used up
\* (j updates of pair i done); i = Len(list) + 1 when the replay is over
RECURSIVE NextPos(_, _, _)
NextPos(list, i, j) ==
    IF i > Len(list) THEN <<i, 0>>
    ELSE IF j < list[i][2] THEN <<i, j>>
    ELSE NextPos(list, i + 1, 0)

ReplayOver == NextPos(mdl.list, mdl.i, mdl.j)[1] > Len(mdl.list)

\* what the last operation on freqs was: the table it started from, the table
\* it handed to downscale (when it ran downscale), the symbol updated
\* (for a lookup: the scaled value v given and the symbol `want` whose range v
\* lies in), the symbol updated and the Prob returned
NoProb == [low |-> 0, high |-> 0, total |-> 0]

NoOp == [op |-> "new", sym |-> 0, rescaled |-> FALSE, before |-> <<>>,
         handed |-> <<>>, prob |-> NoProb, v |-> 0, want |-> 0]

InitState ==
    /\ Preloaded \in [PreloadLists -> [0..SYM_CNT -> Nat]]
    /\ input = <<>> /\ counts = <<>> /\ fault = NoFault
    /\ enc = EncoderNew(<<>>, <<>>, NoFault)
    /\ dec = DecoderIdle
    /\ trace = <<>>
    /\ bio = <<>>
    /\ \E base \in BaseTables, list \in ModelLists :
          mdl = [base |-> base, list |-> list, i |-> 1, j |-> 0,
                 freqs |-> base, pre |-> <<>>, preDone |-> FALSE,
                 rescales |-> 0, direct |-> 0, last |-> NoOp]

stateFrame == <<input, counts, fault, enc, dec, trace, bio>>

\* the next update of the replay: State::get_prob_and_update(sym), and so
\* State::update(sym), on freqs
StateUpdate ==
    /\ ~ReplayOver
    /\ LET pos == NextPos(mdl.list, mdl.i, mdl.j)
           sym == mdl.list[pos[1]][1]
           inc == Increment(mdl.freqs, sym)
           rescaled == inc[SYM_CNT] >= MAX_FREQ
           pu == GetProbAndUpdate(mdl.freqs, sym)
       IN  mdl' = [mdl EXCEPT
                     !.freqs = pu.freqs,
                     !.i = pos[1], !.j = pos[2] + 1,
                     !.rescales = IF rescaled THEN @ + 1 ELSE @,
                     !.last = [op |-> "update", sym |-> sym,
                               rescaled |-> rescaled, before |-> mdl.freqs,
                               handed |-> IF rescaled THEN inc ELSE <<>>,
                               prob |-> pu.prob,
                               v |-> 0, want |-> sym]]
    /\ UNCHANGED stateFrame

\* State::preload(list) on a State equal to base
StatePreload ==
    /\ ~mdl.preDone
    /\ \A k \in 1..Len(mdl.list) : mdl.list[k][1] < EOF
    /\ mdl' = [mdl EXCEPT !.pre = Preload(mdl.base, mdl.list), !.preDone = TRUE]
    /\ UNCHANGED stateFrame

\* State::downscale called directly, once the replay is over
StateDownscale ==
    /\ ReplayOver
    /\ mdl.direct = 0
    /\ mdl' = [mdl EXCEPT
                 !.freqs = Downscale(mdl.freqs),
                 !.direct = @ + 1,
                 !.last = [op |-> "downscale", sym |-> 0, rescaled |-> TRUE,
                           before |-> mdl.freqs, handed |-> mdl.freqs,
                           prob |-> NoProb, v |-> 0, want |-> 0]]
    /\ UNCHANGED stateFrame

NextState ==
    \/ StateUpdate
    \/ StatePreload
    \/ StateDownscale

SpecState == InitState /\ [][NextState]_vars

(***************************************************************************)
(* Specification SpecLookup: a State is taken from a base table by the     *)
(* updates of one (symbol, count) pair, and get_symbol_and_update is then  *)
(* called on it (test get_sym of src/arith.rs).                            *)
(***************************************************************************)
\* State::get_symbol_and_update(v) called once the replay is over, for v the
\* lowest or the highest scaled value in the range of a symbol
StateLookup ==
    /\ ReplayOver
    /\ mdl.direct = 0
    /\ \E s \in ModelSyms :
       \E v \in {mdl.freqs[s], mdl.freqs[s + 1] - 1} :
          LET su == GetSymbolAndUpdate(mdl.freqs, v)
              inc == Increment(mdl.freqs, su.sym)
              rescaled == su.sym < SYM_CNT /\ inc[SYM_CNT] >= MAX_FREQ
          IN  mdl' = [mdl EXCEPT
                        !.freqs = su.freqs,
                        !.direct = @ + 1,
                        !.rescales = IF rescaled THEN @ + 1 ELSE @,
                        !.last = [op |-> "lookup", sym |-> su.sym,
                                  rescaled |-> rescaled, before |-> mdl.freqs,
                                  handed |-> IF rescaled THEN inc ELSE <<>>,
                                  prob |-> su.prob, v |-> v, want |-> s]]
    /\ UNCHANGED stateFrame

InitLookup ==
    /\ InitState
    /\ Len(mdl.list) <= 1

NextLookup ==
    \/ StateUpdate
    \/ StateLookup

SpecLookup == InitLookup /\ [][NextLookup]_vars

(***************************************************************************)
(* Specification SpecBits: a BitWriter over a byte vector is driven by     *)
(* write_bits and flush calls, logged in `log`; then a BitReader is opened *)
(* over the bytes the writer's sink holds and reads the counts of the      *)
(* logged write_bits calls back in order (tests write_bits and read_bits   *)
(* of src/bitfile.rs).                                                     *)
(***************************************************************************)
\* the most write_bits calls, and the most flush calls, of a run
MaxCalls == 2
MaxFlushes == 2

\* the values and the counts write_bits is called with
BitValues == {5, 715}
BitCounts == {0, 1, 3, 8, 10}

WriteEvent(v, c) == [op |-> "write", v |-> v, c |-> c]
FlushEvent == [op |-> "flush", v |-> 0, c |-> 0]

IsWrite(e) == e.op = "write"

\* the write_bits calls of the log, in order
Writes == SelectSeq(bio.log, IsWrite)

RECURSIVE SumCounts(_)
SumCounts(evs) ==
    IF evs = <<>> THEN 0 ELSE Head(evs).c + SumCounts(Tail(evs))

\* the number of bits written so far
TotalBits == SumCounts(Writes)

\* the bytes the writer's sink holds
SinkBytes == ToInner(bio.w).bytes

InitBits ==
    /\ input = <<>> /\ counts = <<>> /\ fault = NoFault
    /\ enc = EncoderNew(<<>>, <<>>, NoFault)
    /\ dec = DecoderIdle
    /\ trace = <<>>
    /\ mdl = <<>>
    /\ bio = [log |-> <<>>, w |-> BitWriterNew(NewSink(0)), nflush |-> 0,
              opened |-> FALSE, r |-> BitReaderNew(NewSource(<<>>, 0)),
              reads |-> <<>>, rerr |-> "none"]

bitsFrame == <<input, counts, fault, enc, dec, trace, mdl>>

\* BitWriter::write_bits(v, c)
BitsWrite ==
    /\ ~bio.opened
    /\ Len(Writes) < MaxCalls
    /\ \E v \in BitValues, c \in BitCounts :
          bio' = [bio EXCEPT !.w = WriteBits(bio.w, v, c),
                             !.log = Append(@, WriteEvent(v, c))]
    /\ UNCHANGED bitsFrame

\* Write::flush of the BitWriter
BitsFlush ==
    /\ ~bio.opened
    /\ bio.nflush < MaxFlushes
    /\ bio' = [bio EXCEPT !.w = Flush(bio.w), !.nflush = @ + 1,
                          !.log = Append(@, FlushEvent)]
    /\ UNCHANGED bitsFrame

\* BitReader::new over the bytes written
BitsOpen ==
    /\ ~bio.opened
    /\ bio.nflush >= 1
    /\ bio' = [bio EXCEPT !.opened = TRUE,
                          !.r = BitReaderNew(NewSource(SinkBytes, 0))]
    /\ UNCHANGED bitsFrame

\* BitReader::read_bits with the count of the next logged write_bits call
BitsRead ==
    /\ bio.opened
    /\ bio.rerr = "none"
    /\ Len(bio.reads) < Len(Writes)
    /\ LET rd == ReadBits(bio.r, Writes[Len(bio.reads) + 1].c)
       IN  bio' = [bio EXCEPT !.r = rd.r, !.rerr = rd.err,
                     !.reads = IF rd.err = "none" THEN Append(@, rd.value)
                               ELSE @]
    /\ UNCHANGED bitsFrame

NextBits ==
    \/ BitsWrite
    \/ BitsFlush
    \/ BitsOpen
    \/ BitsRead

SpecBits == InitBits /\ [][NextBits]_vars

(***************************************************************************)
(* Specification SpecReader: a BitReader created with new_with_extra over  *)
(* a byte vector is read one bit at a time, past the end of the vector     *)
(* (test read_bit of src/bitfile.rs).  `past` logs the result of every     *)
(* read_bit call made once all the bits of the vector had been returned.   *)
(***************************************************************************)
\* the largest padding budget, and the most reads made past the end
MaxExtra == 2
MaxPastReads == 4

\* every bit of the source has been returned by the reader
SourceExhausted(r) == r.mask = 128 /\ r.inner.pos >= Len(r.inner.bytes)

InitReader ==
    /\ input \in Inputs
    /\ counts = <<>> /\ fault = NoFault
    /\ enc = EncoderNew(<<>>, <<>>, NoFault)
    /\ dec = DecoderIdle
    /\ trace = <<>>
    /\ mdl = <<>>
    /\ \E extra \in 0..MaxExtra :
          bio = [r |-> BitReaderNewWithExtra(NewSource(input, 0), extra),
                 extra |-> extra, nbits |-> 0, past |-> <<>>]

readerFrame == <<input, counts, fault, enc, dec, trace, mdl>>

\* BitReader::read_bit
ReaderReadBit ==
    /\ Len(bio.past) < MaxPastReads
    /\ LET rd == ReadBit(bio.r)
       IN  bio' = [bio EXCEPT
                     !.r = rd.r,
                     !.nbits = IF rd.err = "none" THEN @ + 1 ELSE @,
                     !.past = IF SourceExhausted(bio.r)
                              THEN Append(@, [bit |-> rd.bit, err |-> rd.err])
                              ELSE @]
    /\ UNCHANGED readerFrame

NextReader == ReaderReadBit

SpecReader == InitReader /\ [][NextReader]_vars

(***************************************************************************)
(* Specification SpecTwice: compress is run on `input`, and then a second  *)
(* time, by a new Encoder preloaded with the same list, on the same input  *)
(* and with a new sink.  `bio` keeps what the first run returned.          *)
(***************************************************************************)
\* (mutant) a second run that starts from the model the first run left
EncAgainKeepModel ==
    /\ enc.pc = "done"
    /\ bio = <<>>
    /\ bio' = <<Compressed, enc.res>>
    /\ enc' = [EncoderNew(input, counts, fault) EXCEPT !.state = enc.state]
    /\ trace' = <<>>
    /\ UNCHANGED <<input, counts, fault, dec, mdl>>

\* the first run has returned; Encoder::new, preload and compress again
EncAgain ==
    /\ enc.pc = "done"
    /\ bio = <<>>
    /\ bio' = <<Compressed, enc.res>>
    /\ enc' = EncoderNew(input, counts, fault)
    /\ trace' = <<>>
    /\ UNCHANGED <<input, counts, fault, dec, mdl>>

NextTwice ==
    \/ EncRead
    \/ EncSymbol
    \/ EncRenorm
    \/ EncFinal
    \/ EncFlush
    \/ EncAgain

SpecTwice == Init /\ [][NextTwice]_vars

(***************************************************************************)
(* The bits a BitWriter has been given: those of the bytes it has sent to  *)
(* its sink, then those it holds in buf.                                   *)
(***************************************************************************)
\* the n most significant bits of byte b, the most significant first
BitsOfByte(b, n) == [k \in 1..n |-> (b \div (2 ^ (8 - k))) % 2]

\* the number of bits held in buf when the mask is m
BitsHeld(m) == CHOOSE n \in 0..8 : m * (2 ^ n) = 128 \/ (m = 0 /\ n = 8)

RECURSIVE BitsOfBytes(_)
BitsOfBytes(bytes) ==
    IF bytes = <<>> THEN <<>>
    ELSE BitsOfByte(Head(bytes), 8) \o BitsOfBytes(Tail(bytes))

WrittenBits(w) ==
    BitsOfBytes(ToInner(w).bytes) \o BitsOfByte(w.buf, BitsHeld(w.mask))

(***************************************************************************)
(* Specification SpecPreload: State::preload called on two new States with *)
(* two lists of (symbol, count) pairs that give every byte the same total  *)
(* count (the tests build the list from a HashMap, whose iteration order   *)
(* is not fixed).  Both lists start with `prefix` (no pair, or the pairs   *)
(* of NearFullList) followed by the pairs of `list`, resp. `other`; the    *)
(* loop of preload over prefix \o list passes through the table that       *)
(* preload(prefix) leaves, which is taken from Preloaded.                  *)
(***************************************************************************)
\* the symbols preload accepts are bytes (u8): the bytes of ModelSyms, each
\* pair with a positive count (a pair with count 0 runs no update)
ByteLists == SeqsUpTo((ModelSyms \ {EOF}) \X (1..MaxCount), MaxPairs)

\* the sum of the counts that cnts gives symbol s
RECURSIVE Histogram(_, _)
Histogram(cnts, s) ==
    IF cnts = <<>> THEN 0
    ELSE (IF Head(cnts)[1] = s THEN Head(cnts)[2] ELSE 0)
           + Histogram(Tail(cnts), s)

SameHistogram(a, b) == \A s \in ModelSyms : Histogram(a, s) = Histogram(b, s)

\* the sum of all counts of cnts
RECURSIVE ListTotal(_)
ListTotal(cnts) ==
    IF cnts = <<>> THEN 0 ELSE Head(cnts)[2] + ListTotal(Tail(cnts))

InitPreload ==
    /\ Preloaded \in [PreloadLists -> [0..SYM_CNT -> Nat]]
    /\ input = <<>> /\ counts = <<>> /\ fault = NoFault
    /\ enc = EncoderNew(<<>>, <<>>, NoFault)
    /\ dec = DecoderIdle
    /\ trace = <<>>
    /\ bio = <<>>
    /\ \E prefix \in {<<>>, NearFullList}, list \in ByteLists :
       \E other \in {l \in ByteLists : SameHistogram(l, list)} :
          mdl = [prefix |-> prefix, list |-> list, other |-> other,
                 pre |-> <<>>, preDone |-> FALSE,
                 alt |-> <<>>, altDone |-> FALSE]

\* State::new() followed by State::preload(prefix \o list)
PreloadList ==
    /\ ~mdl.preDone
    /\ mdl' = [mdl EXCEPT !.pre = Preload(Preloaded[mdl.prefix], mdl.list),
                          !.preDone = TRUE]
    /\ UNCHANGED stateFrame

\* State::new() followed by State::preload(prefix \o other)
PreloadOther ==
    /\ ~mdl.altDone
    /\ mdl' = [mdl EXCEPT !.alt = Preload(Preloaded[mdl.prefix], mdl.other),
                          !.altDone = TRUE]
    /\ UNCHANGED stateFrame

NextPreload ==
    \/ PreloadList
    \/ PreloadOther

SpecPreload == InitPreload /\ [][NextPreload]_vars

(***************************************************************************)
(* Specification SpecLive: SpecAny with the fairness of sequential code.   *)
(* compress and decompress are loops of one thread each: once called, the  *)
(* function takes its next step (weak fairness on the steps of each        *)
(* function).  Calling decompress is left to the caller and is not forced. *)
(* Each step of compress is a guard on enc.pc followed by an assignment to *)
(* enc in every branch, which changes enc; so a step of compress is        *)
(* enabled exactly when EncRunning holds, and weak fairness on EncStep,    *)
(* []<>(~ENABLED <<EncStep>>_vars) \/ []<><<EncStep>>_vars, is written    *)
(* with EncRunning for the enabling condition.  Likewise for decompress.   *)
(***************************************************************************)
\* a step of Encoder::compress
EncStep ==
    \/ EncRead
    \/ EncSymbol
    \/ EncRenorm
    \/ EncFinal
    \/ EncFlush

\* a step of Decoder::decompress
DecStep ==
    \/ DecPrime
    \/ DecSymbol
    \/ DecRenorm

\* compress has been called and has not returned
EncRunning == enc.pc \in {"read", "encode", "renorm", "final", "flush"}

\* decompress has been called and has not returned
DecRunning == dec.pc \in {"prime", "decode", "renorm"}

\* the runs without an injected I/O failure (a failing call ends the run
\* at once)
InitLive ==
    /\ Init
    /\ fault = NoFault

SpecLive ==
    /\ InitLive /\ [][NextAny]_vars
    /\ ([]<>~EncRunning \/ []<><<EncStep>>_vars)
    /\ ([]<>~DecRunning \/ []<><<DecStep>>_vars)

(***************************************************************************)
(* Observations on a run.                                                  *)
(***************************************************************************)
\* the sink (source) has reported an error to its caller
SinkFailed(sink) == sink.failAt # 0 /\ sink.ops >= sink.failAt
SourceFailed(src) == src.failAt # 0 /\ src.ops >= src.failAt

\* the sink (source) was not called again after the call that failed
SinkLeftAlone(sink) == sink.ops <= sink.failAt
SourceLeftAlone(src) == src.ops <= src.failAt

\* decompress has returned, given all the bytes compress wrote
DecodedAll == dec.pc = "done" /\ dec.full

\* res is an error that says "unexpected end", in either of the two ways the
\* Error type can say it
IsUnexpectedEnd(res) ==
    /\ res.tag = "Err"
    /\ \/ res.error = ErrorUnexpectedEof
       \/ res.error = FromIoError(IoUnexpectedEof)

(***************************************************************************)
(* The claims.                                                             *)
(***************************************************************************)

\* C1: round trip.  With fresh models and no I/O failure, compress succeeds
\* on every input, and decompress of all the bytes it wrote succeeds and
\* returns exactly the input bytes, nothing added for EOF.
C1_RoundTrip ==
    (counts = <<>> /\ fault = NoFault) =>
        /\ enc.pc = "done" => enc.res = ResOk
        /\ DecodedAll => dec.res = ResOk /\ Decompressed = input

C1_Witness ==
    /\ counts = <<>> /\ fault = NoFault
    /\ DecodedAll /\ dec.res = ResOk
    /\ Len(input) >= 2 /\ Decompressed = input

\* C2: lockstep.  While the decoder reads the encoder's whole output, at the
\* start of each decode step, k bytes decoded so far, its table, low and high
\* are those the encoder had at the start of its symbol k + 1.
C2_Lockstep ==
    (dec.pc = "decode" /\ dec.full) =>
        LET k == Len(Decompressed)
        IN  /\ k + 1 <= Len(trace)
            /\ trace[k + 1] = Snapshot(dec.state, dec.low, dec.high)

C2_Witness ==
    /\ dec.pc = "decode" /\ dec.full
    /\ counts = NearFullList
    /\ Len(Decompressed) = 2
    /\ trace[3] = Snapshot(dec.state, dec.low, dec.high)

\* C3: corruption detection.  decompress of a proper prefix of the bytes
\* compress wrote (no I/O failure) fails with an unexpected-end error.
C3_TruncationDetected ==
    (dec.pc = "done" /\ ~dec.full /\ fault = NoFault) => IsUnexpectedEnd(dec.res)

\* C4: every error of the source or the sink during compress makes compress
\* return the I/O-failure error at once: no panic, no success, no further call.
C4_IoErrorReturned ==
    (enc.pc = "done"
        /\ (SourceFailed(enc.input) \/ SinkFailed(ToInner(enc.outp)))) =>
        /\ enc.res = ResErr(FromIoError(IoOther))
        /\ SourceLeftAlone(enc.input) \/ ~SourceFailed(enc.input)
        /\ SinkLeftAlone(ToInner(enc.outp)) \/ ~SinkFailed(ToInner(enc.outp))

\* C5: when the bit reader runs out of input and of padding before EOF is
\* decoded, decompress fails with the error kind UnexpectedEof, which is not
\* the kind Io of a failure of the source or the sink.
C5_UnexpectedEofKind ==
    (dec.pc = "done" /\ dec.exhausted) =>
        /\ dec.res = ResErr(ErrorUnexpectedEof)
        /\ dec.res.error.variant # "Io"

\* C9: preloaded round trip.  With the Encoder and the Decoder preloaded
\* with the same list, decompress of all the bytes compress wrote succeeds
\* and returns exactly the input.
C9_PreloadedRoundTrip ==
    (counts # <<>> /\ fault = NoFault) =>
        /\ enc.pc = "done" => enc.res = ResOk
        /\ DecodedAll => dec.res = ResOk /\ Decompressed = input

C9_Witness ==
    /\ counts = NearFullList /\ fault = NoFault
    /\ DecodedAll /\ dec.res = ResOk
    /\ Len(input) >= 2 /\ Decompressed = input
    /\ GetCount(dec.state) < MAX_FREQ \div 2 + SYM_CNT

\* C6: table invariant.  After every update, whatever the symbol and the
\* history, and after preload, the table is non-decreasing and its total
\* freqs[257] is at most MAX_FREQ.
C6_TableInvariant ==
    /\ mdl.last.op = "update" =>
          Monotone(mdl.freqs) /\ GetCount(mdl.freqs) <= MAX_FREQ
    /\ mdl.preDone => Monotone(mdl.pre) /\ GetCount(mdl.pre) <= MAX_FREQ

C6_Witness ==
    /\ mdl.last.op = "update" /\ mdl.last.rescaled
    /\ ~ReplayOver
    /\ Monotone(mdl.freqs) /\ GetCount(mdl.freqs) <= MAX_FREQ

\* C7: rescale invariant.  When downscale has run (inside an update, or called
\* directly), every symbol whose count was above 0 in the table handed to it
\* has a count of at least 1, and the table is non-decreasing.
C7_RescaleInvariant ==
    mdl.last.rescaled =>
        /\ \A s \in 0..(SYM_CNT - 1) :
              Count(mdl.last.handed, s) > 0 => Count(mdl.freqs, s) >= 1
        /\ Monotone(mdl.freqs)

C7_Witness ==
    /\ mdl.last.op = "update" /\ mdl.last.rescaled
    /\ \E s \in 0..(SYM_CNT - 1) : Count(mdl.last.handed, s) = 1
    /\ \E s \in 0..(SYM_CNT - 1) :
          Count(mdl.last.handed, s) >= 4 /\ Count(mdl.freqs, s) >= 2

\* C8: preload equivalence.  The table preload(list) produces is the table
\* produced by calling update(symbol) count times for each pair, in list
\* order, with every rescale those updates trigger.
C8_PreloadEquivalence ==
    (mdl.preDone /\ ReplayOver /\ mdl.direct = 0) => mdl.pre = mdl.freqs

C8_Witness ==
    /\ mdl.preDone /\ ReplayOver /\ mdl.direct = 0
    /\ Len(mdl.list) = 2 /\ mdl.list[1][2] = 2 /\ mdl.list[2][2] >= 1
    /\ mdl.list[1][1] # mdl.list[2][1]
    /\ mdl.rescales = 1
    /\ mdl.pre = mdl.freqs

\* C10: bit I/O symmetry.  After write_bits(v_i, c_i) calls followed by one
\* flush the sink holds ceil(sum c_i / 8) bytes, the bits between the last
\* written bit and the byte boundary are zero, and read_bits(c_i) in the same
\* order returns v_i mod 2^c_i.
OneFlushLast ==
    /\ bio.nflush = 1
    /\ bio.log[Len(bio.log)] = FlushEvent

C10_BitSymmetry ==
    OneFlushLast =>
        /\ Len(SinkBytes) = (TotalBits + 7) \div 8
        /\ TotalBits % 8 # 0 =>
              SinkBytes[Len(SinkBytes)] % (2 ^ (8 - (TotalBits % 8))) = 0
        /\ bio.rerr = "none"
        /\ \A i \in 1..Len(bio.reads) :
              bio.reads[i] = Wide(Writes[i].v % (2 ^ Writes[i].c))

C10_Witness ==
    /\ OneFlushLast
    /\ bio.opened
    /\ Len(Writes) = 2 /\ Len(bio.reads) = 2
    /\ TotalBits % 8 # 0
    /\ Writes[1].c = 3 /\ Writes[1].v = 715 /\ Writes[2].c = 10
    /\ bio.reads[1] = Wide(3) /\ bio.reads[2] = Wide(Writes[2].v)
    /\ Len(SinkBytes) = 2

\* C11: padding budget.  Once every bit of the source has been returned, a
\* reader created with budget extra answers the next extra read_bit calls with
\* a zero bit, and every call after those fails with an io::Error of kind
\* UnexpectedEof; with budget 0 the first call past the end fails.
C11_PaddingBudget ==
    \A k \in 1..Len(bio.past) :
        IF k <= bio.extra
        THEN bio.past[k] = [bit |-> 0, err |-> "none"]
        ELSE bio.past[k].err = "eof" /\ ReadError(bio.past[k].err) = IoUnexpectedEof

C11_Witness ==
    /\ bio.extra = 2
    /\ Len(input) = 1 /\ input[1] = 255
    /\ bio.nbits = 8 + 2
    /\ Len(bio.past) = 4
    /\ bio.past[2].err = "none" /\ bio.past[3].err = "eof"
    /\ bio.past[4].err = "eof"

\* the padding budget decompress gives its BitReader
PaddingBits == 32 * 2

\* the reader was asked for a bit after the source and the padding ran out
BitSupplyExhausted(r) ==
    /\ r.extra_bits = 0
    /\ SourceExhausted(r)
    /\ r.inner.ops > Len(r.inner.bytes) + PaddingBits

\* C12: no partial success.  decompress returns Ok only when the last symbol
\* decoded is EOF; when the bits of the input and the padding ran out, or a
\* read or a write failed, it returns an error (which carries no output).
C12_NoPartialSuccess ==
    dec.pc = "done" =>
        /\ dec.res = ResOk => dec.sym = EOF
        /\ (BitSupplyExhausted(dec.inp) \/ SourceFailed(dec.inp.inner)
               \/ SinkFailed(dec.output)) => dec.res.tag = "Err"

C12_Witness ==
    /\ dec.pc = "done"
    /\ enc.pc = "unused"
    /\ BitSupplyExhausted(dec.inp)
    /\ Len(Decompressed) >= 2
    /\ dec.sym # EOF
    /\ dec.res.tag = "Err"

\* 0 <= low <= high <= MAX_CODE
InInterval(low, high) ==
    /\ WLe(Wide(0), low)
    /\ WLe(low, high)
    /\ WLe(high, MAX_CODE)

\* C13: interval invariant.  Whenever compress or decompress is about to
\* process a symbol, 0 <= low <= high <= MAX_CODE = 2^32 - 1.
C13_IntervalInvariant ==
    /\ enc.pc \in {"read", "encode"} => InInterval(enc.low, enc.high)
    /\ dec.pc = "decode" => InInterval(dec.low, dec.high)

C13_Witness ==
    /\ dec.pc = "decode"
    /\ enc.pc = "done"
    /\ Len(Decompressed) >= 1
    /\ WLt(Wide(0), dec.low) /\ WLt(dec.low, dec.high)
    /\ WLt(dec.high, MAX_CODE)
    /\ Len(trace) >= 2
    /\ WLt(Wide(0), trace[2].low) /\ WLt(trace[2].high, MAX_CODE)

C15_EmptyFixture ==
    (input = <<>> /\ counts = <<>> /\ fault = NoFault) =>
        /\ enc.pc = "done" => enc.res = ResOk /\ Compressed = <<255, 64>>
        /\ DecodedAll =>
              /\ dec.inp.inner.bytes = <<255, 64>>
              /\ dec.res = ResOk
              /\ Decompressed = <<>>

C15_Witness ==
    /\ input = <<>> /\ counts = <<>> /\ fault = NoFault
    /\ DecodedAll
    /\ dec.inp.inner.bytes = <<255, 64>>
    /\ dec.res = ResOk /\ Decompressed = <<>>

\* n copies of bit b
Repeat(b, n) == [k \in 1..n |-> b]

\* the rules E1, E2 and E3 of renormalisation: the bits emitted and the next
\* low, high and pending_bits; rule "none" when the loop ends
RenormRule(low, high, pending) ==
    IF WLt(high, ONE_HALF)
    THEN [rule |-> "E1", bits |-> <<0>> \o Repeat(1, pending),
          low |-> WMul(low, 2), high |-> WAdd(WMul(high, 2), Wide(1)),
          pending_bits |-> 0]
    ELSE IF WLe(ONE_HALF, low)
    THEN [rule |-> "E2", bits |-> <<1>> \o Repeat(0, pending),
          low |-> WMul(WSub(low, ONE_HALF), 2),
          high |-> WAdd(WMul(WSub(high, ONE_HALF), 2), Wide(1)),
          pending_bits |-> 0]
    ELSE IF WLe(ONE_FOURTH, low) /\ WLt(high, THREE_FOURTHS)
    THEN [rule |-> "E3", bits |-> <<>>,
          low |-> WMul(WSub(low, ONE_FOURTH), 2),
          high |-> WAdd(WMul(WSub(high, ONE_FOURTH), 2), Wide(1)),
          pending_bits |-> pending + 1]
    ELSE [rule |-> "none", bits |-> <<>>, low |-> low, high |-> high,
          pending_bits |-> pending]

\* C16: every iteration of the encoder's inner loop that does not fail emits
\* the bits, and leaves the low, high and pending_bits, that the rules E1, E2
\* and E3 give (in E1 and E2 the bit, then pending_bits complementary bits,
\* and pending_bits = 0); the loop ends exactly when no rule applies.
C16_RenormAsRules ==
    [][(enc.pc = "renorm" /\ enc'.pc \in {"renorm", "read", "final"}) =>
          LET r == RenormRule(enc.low, enc.high, enc.pending_bits)
          IN  /\ (r.rule = "none") <=> (enc'.pc # "renorm")
              /\ enc'.low = r.low
              /\ enc'.high = r.high
              /\ enc'.pending_bits = r.pending_bits
              /\ WrittenBits(enc'.outp) = WrittenBits(enc.outp) \o r.bits]_vars

C16_Witness ==
    /\ enc.pc = "renorm"
    /\ enc.pending_bits >= 2
    /\ RenormRule(enc.low, enc.high, enc.pending_bits).rule = "E2"
    /\ Len(WrittenBits(enc.outp)) >= 1

\* bits, with zero bits added up to the next multiple of 8
PadToByte(bits) == bits \o Repeat(0, (8 - (Len(bits) % 8)) % 8)

\* C17: final flush.  After the renormalisation of EOF, with p pending bits,
\* compress writes exactly p + 2 bits: b (0 when low < ONE_FOURTH, else 1) and
\* then p + 1 bits 1 - b; it then flushes the bit writer, which sends the bits
\* written, zero-padded to a byte; nothing is written after that.
C17_FinalFlush ==
    [][
        /\ (enc.pc = "final" /\ enc'.pc = "flush") =>
             LET b == IF WLt(enc.low, ONE_FOURTH) THEN 0 ELSE 1
             IN  WrittenBits(enc'.outp) =
                    WrittenBits(enc.outp) \o <<b>>
                        \o Repeat(1 - b, enc.pending_bits + 1)
        /\ (enc.pc = "flush" /\ enc'.res = ResOk) =>
             /\ BitsOfBytes(ToInner(enc'.outp).bytes)
                   = PadToByte(WrittenBits(enc.outp))
             /\ enc'.pc = "done"
        /\ enc.pc = "done" => enc'.outp = enc.outp
    ]_vars

C17_Witness ==
    /\ enc.pc = "done" /\ enc.res = ResOk
    /\ dec.pc = "idle"
    /\ Len(input) = 2 /\ input[2] = 128
    /\ Len(WrittenBits(enc.outp)) % 8 # 0
    /\ Len(Compressed) >= 3

\* the phase of compress: Active while symbols are read and encoded, Flushing
\* from the end of the renormalisation of EOF until the bit writer is flushed
Phase(pc) ==
    IF pc \in {"read", "encode", "renorm"} THEN "Active"
    ELSE IF pc \in {"final", "flush"} THEN "Flushing"
    ELSE "Done"

\* the calls the sink has received beyond one per byte it holds
CallsBeyondBytes(sink) == sink.ops - Len(sink.bytes)

\* C18: encoder ordering.  The k-th symbol compress encodes is the k-th input
\* byte, and EOF on the first read that returns no byte; EOF is the last
\* symbol encoded; the final bits are written only after EOF was processed;
\* Active is followed by Flushing and Flushing by Done, and the sink's flush
\* is called once, by the last step of a run that returns Ok.
C18_EncoderOrdering ==
    [][
        /\ enc.pc = "encode" =>
              enc.c = IF Len(trace) <= Len(input) THEN input[Len(trace)]
                      ELSE EOF
        /\ (enc.pc = "renorm" /\ enc.c = EOF) => enc'.pc # "read"
        /\ Phase(enc.pc) = "Flushing" =>
              enc.c = EOF /\ Len(trace) = Len(input) + 1
        /\ (Phase(enc.pc) = "Active" /\ Phase(enc'.pc) = "Flushing") =>
              enc.pc = "renorm" /\ enc.c = EOF /\ enc'.pc = "final"
        /\ (Phase(enc.pc) = "Active" /\ Phase(enc'.pc) = "Done") =>
              enc'.res.tag = "Err"
        /\ Phase(enc.pc) = "Flushing" => Phase(enc'.pc) # "Active"
        /\ Phase(enc.pc) = "Done" => enc' = enc
        /\ enc'.res = ResOk =>
              /\ enc.pc \in {"flush", "done"}
              /\ CallsBeyondBytes(ToInner(enc'.outp)) = 1
        /\ (fault.where # "esink" /\ Phase(enc.pc) # "Done") =>
              CallsBeyondBytes(ToInner(enc.outp)) = 0
    ]_vars

C18_Witness ==
    /\ enc.pc = "done" /\ enc.res = ResOk
    /\ dec.pc = "idle"
    /\ Len(input) = 2 /\ input[1] = 255 /\ input[2] = 0
    /\ Len(trace) = 3
    /\ CallsBeyondBytes(ToInner(enc.outp)) = 1

\* C19: lookup agreement.  For a scaled value v in the range of symbol s,
\* get_symbol_and_update(v) returns s, the smallest symbol with
\* v < freqs[s + 1], and the (low, high, total) get_prob_and_update(s) returns
\* on the same table, and leaves the table get_prob_and_update(s) leaves.
C19_LookupAgreement ==
    mdl.last.op = "lookup" =>
        LET before == mdl.last.before
            s == mdl.last.want
            pu == GetProbAndUpdate(before, s)
        IN  /\ before[s] <= mdl.last.v /\ mdl.last.v < before[s + 1]
            /\ mdl.last.sym = s
            /\ \A t \in 0..(s - 1) : ~(mdl.last.v < before[t + 1])
            /\ mdl.last.prob = pu.prob
            /\ mdl.freqs = pu.freqs

C19_Witness ==
    /\ mdl.last.op = "lookup"
    /\ mdl.last.want = 255 /\ mdl.last.sym = 255
    /\ mdl.last.v = mdl.last.before[256] - 1
    /\ mdl.last.v > mdl.last.before[255]
    /\ mdl.last.rescaled
    /\ mdl.freqs = GetProbAndUpdate(mdl.last.before, 255).freqs

\* C20: update(sym) adds 1 to freqs[i] for sym < i <= 257 and to no other
\* entry, then runs downscale exactly when the new freqs[257] >= MAX_FREQ; the
\* Prob get_prob_and_update returns is read from the table before the update.
\* (downscale always changes a table in which some count exceeds 1, so a table
\* left equal to `bumped` is one downscale has not run on.)
C20_UpdateEffect ==
    mdl.last.op = "update" =>
        LET before == mdl.last.before
            sym == mdl.last.sym
            bumped == [i \in 0..SYM_CNT |->
                         IF sym < i THEN before[i] + 1 ELSE before[i]]
        IN  /\ mdl.freqs = IF bumped[SYM_CNT] >= MAX_FREQ
                           THEN Downscale(bumped) ELSE bumped
            /\ mdl.last.prob = [low |-> before[sym], high |-> before[sym + 1],
                                total |-> before[SYM_CNT]]

C20_Witness ==
    /\ mdl.last.op = "update"
    /\ mdl.last.sym = 255
    /\ mdl.last.rescaled
    /\ mdl.freqs[255] < mdl.last.before[255]
    /\ mdl.last.prob.total = MAX_FREQ - 1

\* freqs with 1 added to every entry above sym
Bumped(freqs, sym) ==
    [i \in 0..SYM_CNT |-> IF sym < i THEN freqs[i] + 1 ELSE freqs[i]]

\* max(1, floor(c / 2))
HalvedCount(c) == IF c \div 2 >= 1 THEN c \div 2 ELSE 1

\* after is before with every symbol's count c replaced by max(1, floor(c/2))
IsRescaleOf(after, before) ==
    /\ after[0] = 0
    /\ \A s \in 0..(SYM_CNT - 1) :
          Count(after, s) = HalvedCount(Count(before, s))

\* C21: rescale result.  Whenever an update made by compress or decompress
\* runs downscale, every symbol, EOF included, goes from its count c to
\* max(1, floor(c / 2)), and freqs[0] stays 0.
C21_RescaleResult ==
    [][
        /\ (enc.pc = "encode" /\ enc'.pc = "renorm"
               /\ Bumped(enc.state, enc.c)[SYM_CNT] >= MAX_FREQ) =>
              IsRescaleOf(enc'.state, Bumped(enc.state, enc.c))
        /\ (dec.pc = "decode" /\ dec'.pc # "decode" /\ dec'.sym <= EOF
               /\ Bumped(dec.state, dec'.sym)[SYM_CNT] >= MAX_FREQ) =>
              IsRescaleOf(dec'.state, Bumped(dec.state, dec'.sym))
    ]_vars

C21_Witness ==
    /\ dec.pc = "done" /\ dec.res = ResOk /\ dec.full
    /\ counts = NearFullList
    /\ Len(input) = 1
    /\ Count(dec.state, EOF) = 1
    /\ Count(dec.state, 128) = (MAX_FREQ - 264 + 1) \div 2
    /\ Count(enc.state, EOF) = 1
    /\ GetCount(enc.state) < MAX_FREQ \div 2 + SYM_CNT

\* 2^W * MAX_FREQ for W = 32, as a u64 (below 2^46)
ProductBound == WMul(WAdd(MAX_CODE, Wide(1)), MAX_FREQ)

\* the products compress forms for the symbol it is about to encode
EncProducts ==
    LET p == GetProb(enc.state, enc.c)
        range == Range(enc.low, enc.high)
    IN  {WMul(range, p.high), WMul(range, p.low)}

\* the products decompress forms in the decode step it is about to make
DecProducts ==
    LET range == Range(dec.low, dec.high)
        total == GetCount(dec.state)
        su == GetSymbolAndUpdate(dec.state,
                                 ScaledCount(dec.value, dec.low, range, total))
    IN  {WMul(WAdd(WSub(dec.value, dec.low), Wide(1)), total),
         WMul(range, su.prob.high), WMul(range, su.prob.low)}

\* C22: no overflow.  The products range * p.high, range * p.low and
\* (value - low + 1) * total stay below 2^32 * MAX_FREQ < 2^46, and low and
\* high stay at most MAX_CODE after every narrowing and every shift.
C22_NoOverflow ==
    /\ enc.pc = "encode" =>
          \A x \in EncProducts : WLe(Wide(0), x) /\ WLt(x, ProductBound)
    /\ dec.pc = "decode" =>
          \A x \in DecProducts : WLe(Wide(0), x) /\ WLt(x, ProductBound)
    /\ enc.pc \in {"read", "encode", "renorm", "final"} =>
          WLe(enc.low, MAX_CODE) /\ WLe(enc.high, MAX_CODE)
    /\ dec.pc \in {"decode", "renorm"} =>
          WLe(dec.low, MAX_CODE) /\ WLe(dec.high, MAX_CODE)
    /\ WLt(ProductBound, <<2 ^ 30, 0>>)

C22_Witness ==
    /\ dec.pc = "decode"
    /\ Len(Decompressed) >= 1
    /\ counts = NearFullList
    /\ \E x \in DecProducts : WLt(<<2 ^ 29, 0>>, x)
    /\ \A x \in DecProducts : WLt(x, ProductBound)


\* the number of positions of cnts that hold the pair p
Occurrences(cnts, p) == Cardinality({k \in 1..Len(cnts) : cnts[k] = p})

\* a and b hold the same pairs, each as often, in some order
IsPermutation(a, b) ==
    /\ Len(a) = Len(b)
    /\ \A k \in 1..Len(a) : Occurrences(a, a[k]) = Occurrences(b, a[k])

\* C23: when the two lists preloaded on new States are permutations of each
\* other and all their counts together (those of the common prefix included)
\* sum to less than MAX_FREQ - 257, so that no update of the preload rescales,
\* both preloads leave the same table.
C23_PreloadOrder ==
    (/\ mdl.preDone /\ mdl.altDone
     /\ IsPermutation(mdl.list, mdl.other)
     /\ ListTotal(mdl.prefix) + ListTotal(mdl.list) < MAX_FREQ - 257)
        => mdl.pre = mdl.alt

\* two different orders of two pairs with positive counts of different bytes
\* have both been preloaded on a new State, without a rescale
C23_Witness ==
    /\ mdl.preDone /\ mdl.altDone
    /\ mdl.prefix = <<>>
    /\ Len(mdl.list) = 2
    /\ mdl.list[1][1] # mdl.list[2][1]
    /\ mdl.list[1][2] > 0 /\ mdl.list[2][2] > 0
    /\ mdl.other = <<mdl.list[2], mdl.list[1]>>
    /\ ListTotal(mdl.list) < MAX_FREQ - 257
    /\ mdl.pre = mdl.alt
    /\ mdl.pre # StateNew
    /\ mdl.pre[SYM_CNT] = StateNew[SYM_CNT] + ListTotal(mdl.list)

\* C30: two lists that give every symbol the same total count, whatever their
\* order and size and whether or not their updates rescale the table, leave
\* the same table when preloaded on new States.
C30_PreloadHistogram ==
    (/\ mdl.preDone /\ mdl.altDone
     /\ SameHistogram(mdl.list, mdl.other))
        => mdl.pre = mdl.alt

\* every symbol, EOF included, has a non-empty range in freqs
Encodable(freqs) ==
    /\ freqs[0] = 0
    /\ \A s \in 0..(SYM_CNT - 1) : freqs[s + 1] > freqs[s]
    /\ GetCount(freqs) >= SYM_CNT

\* C24: every symbol stays encodable.  In the new State, after every update
\* of the replay (rescaling or not), after a direct downscale and after
\* preload, freqs[0] = 0 and freqs[s + 1] > freqs[s] for every symbol s in
\* 0..256, so the total is at least 257.
C24_Encodable ==
    /\ Encodable(mdl.base)
    /\ Encodable(mdl.freqs)
    /\ mdl.preDone => Encodable(mdl.pre)

\* a rescaling update has left a table in which a symbol of count 1 kept its
\* count, a larger count was halved, and the preload of the same list is done
C24_Witness ==
    /\ mdl.last.op = "update" /\ mdl.last.rescaled
    /\ mdl.preDone /\ mdl.pre # mdl.base
    /\ Count(mdl.last.handed, 1) = 1 /\ Count(mdl.freqs, 1) = 1
    /\ Count(mdl.freqs, 128) < Count(mdl.last.handed, 128)
    /\ Count(mdl.freqs, EOF) = 1
    /\ Encodable(mdl.freqs) /\ Encodable(mdl.pre)

\* low <= value <= high
InWindow(low, value, high) == WLe(low, value) /\ WLe(value, high)

\* C25: decoder window invariant.  On every byte sequence, written by
\* compress or not, low <= value <= high when decompress is about to decode a
\* symbol and after the narrowing and every shift of its inner loop; so
\* value - low does not underflow, (value - low + 1) * total - 1 is below
\* range * total (the scaled count is below the total), and
\* get_symbol_and_update never runs into its unreachable!().
C25_DecoderWindow ==
    /\ dec.pc \in {"decode", "renorm"} =>
          InWindow(dec.low, dec.value, dec.high)
    /\ dec.pc = "decode" =>
          LET range == Range(dec.low, dec.high)
              total == GetCount(dec.state)
          IN  /\ WLe(Wide(0), WSub(dec.value, dec.low))
              /\ WLt(WSub(WMul(WAdd(WSub(dec.value, dec.low), Wide(1)), total),
                          Wide(1)),
                     WMul(range, total))
              /\ ScaledCount(dec.value, dec.low, range, total) < total
    /\ dec.sym # SYM_CNT
    /\ dec.res # ResPanic

\* decompress, on bytes no encoder wrote, has decoded two bytes and shifted;
\* value lies strictly inside a window that has left both ends of the range
C25_Witness ==
    /\ enc.pc = "unused"
    /\ dec.pc = "renorm"
    /\ Len(Decompressed) >= 2
    /\ DecOffset(dec.low, dec.high) # <<>>
    /\ WLt(Wide(0), dec.low) /\ WLt(dec.high, MAX_CODE)
    /\ WLt(dec.low, dec.value) /\ WLt(dec.value, dec.high)

\* [low, high] straddles ONE_HALF and is not inside the middle half: none of
\* the three cases of the inner loop applies
Settled(low, high) ==
    /\ WLt(low, ONE_HALF) /\ WLe(ONE_HALF, high)
    /\ ~(WLe(ONE_FOURTH, low) /\ WLt(high, THREE_FOURTHS))

\* the symbols whose narrowing is computed: the bytes of Bytes, which the
\* runs update, bytes next to them, whose count stays 1, and EOF
NarrowSyms == {0, 1, 127, 128, 129, 254, 255, EOF}

\* every symbol of freqs has a count of at least 1 and the total is at most
\* high - low + 1, so that range * p.high / total > range * p.low / total for
\* every symbol; and narrowing [low, high] by the range of a symbol of
\* NarrowSyms leaves low <= high
NarrowsAll(freqs, low, high) ==
    /\ \A s \in 0..EOF : freqs[s] < freqs[s + 1]
    /\ WLe(Wide(GetCount(freqs)), Range(low, high))
    /\ \A s \in NarrowSyms :
          LET p == GetProb(freqs, s)
              range == Range(low, high)
          IN  WLe(NarrowLow(low, range, p), NarrowHigh(low, range, p))

\* C26: after every completed inner loop of compress (the next byte is about
\* to be read, or the final bits written) and of decompress (the next symbol
\* is about to be decoded), low < ONE_HALF <= high and [low, high] is not
\* inside [ONE_FOURTH, THREE_FOURTHS), so high - low + 1 > ONE_FOURTH; the
\* total is below MAX_FREQ <= ONE_FOURTH, and narrowing by any symbol of the
\* model gives new low <= new high.
C26_SettledInterval ==
    /\ enc.pc \in {"read", "encode", "final"} =>
          /\ Settled(enc.low, enc.high)
          /\ WLt(ONE_FOURTH, Range(enc.low, enc.high))
          /\ WLt(Wide(GetCount(enc.state)), Wide(MAX_FREQ))
          /\ WLe(Wide(MAX_FREQ), ONE_FOURTH)
          /\ enc.pc = "read" => NarrowsAll(enc.state, enc.low, enc.high)
    /\ dec.pc = "decode" =>
          /\ Settled(dec.low, dec.high)
          /\ WLt(ONE_FOURTH, Range(dec.low, dec.high))
          /\ WLt(Wide(GetCount(dec.state)), Wide(MAX_FREQ))
          /\ NarrowsAll(dec.state, dec.low, dec.high)

\* both inner loops have been left after shifts: the encoder is about to read
\* its second byte and the decoder to decode its second symbol, each with an
\* interval that no longer starts at 0 or ends at MAX_CODE
C26_Witness ==
    /\ dec.pc = "decode" /\ Len(Decompressed) = 1
    /\ Len(trace) >= 2
    /\ WLt(Wide(0), trace[2].low) /\ WLt(trace[2].high, MAX_CODE)
    /\ Settled(trace[2].low, trace[2].high)
    /\ WLt(Wide(0), dec.low) /\ WLt(dec.high, MAX_CODE)
    /\ Settled(dec.low, dec.high)
    /\ WLt(Range(dec.low, dec.high), ONE_HALF)

\* 2^32, the number of code values
CodeValues == WAdd(MAX_CODE, Wide(1))

\* an iteration of an inner loop that shifts doubles high - low + 1, which
\* lies in 1..2^32: a loop entered with a length of at least 1 ends after at
\* most 32 iterations
ShiftDoubles(low, high, lowAfter, highAfter) ==
    /\ WLe(Wide(1), Range(low, high))
    /\ Range(lowAfter, highAfter) = WMul(Range(low, high), 2)
    /\ WLe(Range(lowAfter, highAfter), CodeValues)

\* C27: termination.  compress returns (or is never called, its bytes being
\* replaced), and decompress, once called on the output of compress, on a
\* prefix of it or on any other bytes, returns Ok or Err.  Every iteration of
\* an inner loop that goes on doubles the length of [low, high], which stays
\* in 1..2^32, so that a loop ends after at most W = 32 iterations; and every
\* decode step that goes on shortens [low, high], so that the decoder cannot
\* go on decoding without shifting bits in.
C27_Termination ==
    /\ <>(enc.pc \in {"done", "unused"})
    /\ (dec.pc # "idle") ~> (dec.pc = "done" /\ dec.res.tag \in {"Ok", "Err"})
    /\ [][
           /\ (enc.pc = "renorm" /\ enc'.pc = "renorm") =>
                 ShiftDoubles(enc.low, enc.high, enc'.low, enc'.high)
           /\ (dec.pc = "renorm" /\ dec'.pc = "renorm") =>
                 ShiftDoubles(dec.low, dec.high, dec'.low, dec'.high)
           /\ (dec.pc = "decode" /\ dec'.pc = "renorm") =>
                 WLt(Range(dec'.low, dec'.high), Range(dec.low, dec.high))
       ]_vars

\* decompress has returned an error on bytes no encoder wrote, after decoding
\* a byte and reading all its input and all the padding of its reader
C27_Witness ==
    /\ enc.pc = "unused"
    /\ dec.pc = "done"
    /\ dec.res.tag = "Err"
    /\ Len(Decompressed) >= 1
    /\ dec.inp.extra_bits = 0

\* the width of the code values: decompress primes value with read_bits(32)
W == 32

\* the bits a BitReader has handed out: those of the bytes it fetched, less
\* the ones still under its mask, and the padding bits it used of `budget`
BitsHandedOut(r, budget) ==
    (IF r.mask = 128 THEN 8 * r.inner.pos
     ELSE 8 * (r.inner.pos - 1) + BitsHeld(r.mask))
      + (budget - r.extra_bits)

\* the bits written to a BitWriter that has been flushed (do_flush sends buf
\* as one more byte and leaves buf and mask as they are)
BitsEmitted(w) ==
    IF w.mask = 128 THEN 8 * Len(ToInner(w).bytes)
    ELSE 8 * (Len(ToInner(w).bytes) - 1) + BitsHeld(w.mask)

\* C28: padding need of a valid stream.  While decompress runs on the whole
\* output of compress, the bits its reader has handed out exceed the bits
\* compress wrote by at most W - 2 = 30; so at most 30 of the 64 padding bits
\* are used, the reader never runs out, and without an I/O failure decompress
\* returns Ok with the bytes compressed.
C28_PaddingNeed ==
    (dec.pc # "idle" /\ dec.full) =>
        /\ BitsHandedOut(dec.inp, PaddingBits) - BitsEmitted(enc.outp) <= W - 2
        /\ PaddingBits - dec.inp.extra_bits <= W - 2
        /\ ~dec.exhausted
        /\ (dec.pc = "done" /\ fault = NoFault) =>
              dec.res = ResOk /\ Decompressed = input

\* decompress has returned Ok on the whole output of compress for two input
\* bytes; it read past the bits written, into the padding of its reader
C28_Witness ==
    /\ dec.pc = "done" /\ dec.full /\ dec.res = ResOk
    /\ Len(input) = 2 /\ Decompressed = input
    /\ BitsHandedOut(dec.inp, PaddingBits) > BitsEmitted(enc.outp)
    /\ dec.inp.extra_bits < PaddingBits
    /\ BitsHandedOut(dec.inp, PaddingBits) - BitsEmitted(enc.outp) <= W - 2

\* the count low bits of value, most significant first
ValueBits(value, count) == [k \in 1..count |-> BitAt(value, count - k)]

\* the bits an idempotent writer holds after the calls of log: write_bits adds
\* its bits, flush pads with zero bits to the next byte boundary (and so does
\* nothing on a byte boundary, in particular right after a flush)
RECURSIVE FlushedBits(_)
FlushedBits(log) ==
    IF log = <<>> THEN <<>>
    ELSE LET before == FlushedBits(SubSeq(log, 1, Len(log) - 1))
             e == log[Len(log)]
         IN  IF IsWrite(e) THEN before \o ValueBits(e.v, e.c)
             ELSE PadToByte(before)

\* C29: flushing the bit writer is idempotent.  After any write_bits and flush
\* calls the sink holds the whole bytes of the bits written, each flush having
\* padded them to a byte boundary: a flush on a byte boundary, and so a second
\* flush in a row, sends nothing, and the bits written after a flush start a
\* new byte.
C29_FlushIdempotent ==
    LET bits == FlushedBits(bio.log)
    IN  BitsOfBytes(SinkBytes) = SubSeq(bits, 1, 8 * (Len(bits) \div 8))
=============================================================================
